---------------------------- MODULE Spec2Model ----------------------------
(***************************************************************************)
(* The client-side session / row-cache / avatar synchronisation of the     *)
(* supabase-app repository, for the three behaviourally distinct variants  *)
(* of App that the repository holds:                                       *)
(*   "App" : src/src/App.jsx (src/unnamed/part_000 lines 268-608 has the   *)
(*           same logic): the auth listener issues the fetches, there is   *)
(*           no live row subscription, logout clears the avatar.           *)
(*   "P1"  : src/unnamed/part_001: an effect on [user] issues the fetches  *)
(*           and holds the live row subscription; no loading flag.         *)
(*   "P3"  : src/unnamed/part_000 lines 610-880: as P1, with a loading     *)
(*           flag and fetchAvatar publishing null when there is no path.   *)
(* (src/unnamed/part_000 lines 1-266 is a fourth copy whose text is cut in *)
(* several statements; it is not modelled.)                                *)
(* Every await of a handler is a point where other callbacks interleave:   *)
(* a handler is one action up to its await and one action per resumption.  *)
(***************************************************************************)
EXTENDS Integers, Sequences, FiniteSets, TLC

VARIABLES
  variant,         \* which App is running
  user,            \* useState(null): the session's user, or Null
  loading,         \* useState(true) (App, P3); P1 has no such state: FALSE
  instruments,     \* useState([]): the row cache, a sequence of rows
  avatarUrl,       \* useState(null): the published display URL, or NoUrl
  uploading,       \* useState(false)
  instrumentName,  \* useState(""): the name input
  alertMsg,        \* the message alert() showed in the last step, or NoAlert
  session,         \* the identity provider's current session user, or Null
  getSessionCall,  \* the startup supabase.auth.getSession() call
  authQueue,       \* provider notifications not yet delivered to the listener
  authCalls,       \* signInWithPassword / signUp calls awaiting their result
  fetches,         \* users whose fetchInstruments read is awaiting its result
  profileFetches,  \* users whose profile read is awaiting its result
  channel,         \* owner filter of the live row subscription, or Null
  notifs,          \* postgres_changes payloads not yet delivered
  table,           \* the external instruments table: the set of its rows
  nextId,          \* the next identifier the table assigns
  profiles,        \* the external profiles table: user -> avatar path or NoPath
  storage,         \* the avatars bucket: the set of paths written
  uploads,         \* handleAvatarUpload calls awaiting a remote result
  stimuli,         \* how many user or outside events have occurred
  hist,            \* payloads applied so far by the replay specification
  lastAuthEvent,   \* what the listener last received, NotYet before the first
                   \* notification of this page load, LoggedOut after a logout
  mounted          \* the component is mounted: no effect cleanup has run

vars == <<variant, user, loading, instruments, avatarUrl, uploading,
          instrumentName, alertMsg, session, getSessionCall, authQueue,
          authCalls, fetches, profileFetches, channel, notifs, table, nextId,
          profiles, storage, uploads, stimuli, hist, lastAuthEvent,
          mounted>>

-----------------------------------------------------------------------------
(* Bounds of the model *)

MaxRows == 2

MaxNotifs == 2

MaxAuthQueue == 1

MaxHist == 3

\* User and outside events (clicks, provider events, table changes by other
\* clients) per run; the results of remote calls are not counted.
MaxStimuli == 3

-----------------------------------------------------------------------------
(* Values *)

Users == {"A", "B"}

Null == "null"

NoUrl == <<>>

NoPath == <<>>

NoFile == "nofile"

NoAlert == "noalert"

NotYet == "notyet"

LoggedOut == "loggedout"

Variants == {"App", "P1", "P3"}

UploadFailed == "avatar upload failed"

Exts == {"png", "jpg"}

Names == {"drum", "sax"}

RowIds == 1..MaxRows

\* The variants whose fetches and row subscription hang on the [user] effect.
EffectDriven == {"P1", "P3"}

\* The variants with useState for loading.
HasLoading == {"App", "P3"}

Row(i, n, u) == [id |-> i, name |-> n, user_id |-> u]

\* A step started by the user or the outside world, and a step that is the
\* result of a call already issued.
Stimulus == stimuli < MaxStimuli /\ stimuli' = stimuli + 1

Response == UNCHANGED stimuli

-----------------------------------------------------------------------------
(* Pure helpers *)

\* `${user.id}.${fileExt}` (App, P1); `avatars/${user.id}.${fileExt}` (P3).
FilePath(v, u, ext) ==
  IF v = "P3" THEN <<"avatars/", u, ".", ext>> ELSE <<u, ".", ext>>

\* supabase.storage.from("avatars").getPublicUrl(path).publicUrl: the public
\* prefix of the bucket followed by the path; a function of the path alone.
GetPublicUrl(path) == <<"storage/v1/object/public/", "avatars/">> \o path

\* The render guards: `if (loading) return ...; if (!user) return <login>`.
\* A component that is not mounted renders nothing.
ShowLogin == mounted /\ ~loading /\ user = Null

ShowDashboard == mounted /\ ~loading /\ user # Null

\* What the page holds right after a (re)load, the provider holding session s.
Loaded(v, s) ==
  /\ variant' = v
  /\ user' = Null
  /\ loading' = (v \in HasLoading)
  /\ instruments' = <<>>
  /\ avatarUrl' = NoUrl
  /\ uploading' = FALSE
  /\ instrumentName' = ""
  /\ session' = s
  /\ getSessionCall' = [st |-> "pending", res |-> s]
  /\ authQueue' = <<>>
  /\ authCalls' = {}
  /\ fetches' = {}
  /\ profileFetches' = {}
  /\ channel' = Null
  /\ notifs' = <<>>
  /\ uploads' = {}
  /\ lastAuthEvent' = NotYet
  /\ mounted' = TRUE

Init ==
  /\ variant \in Variants
  /\ user = Null
  /\ loading = (variant \in HasLoading)
  /\ instruments = <<>>
  /\ avatarUrl = NoUrl
  /\ uploading = FALSE
  /\ instrumentName = ""
  /\ alertMsg = NoAlert
  /\ session \in Users \cup {Null}
  /\ getSessionCall = [st |-> "pending", res |-> session]
  /\ authQueue = <<>>
  /\ authCalls = {}
  /\ fetches = {}
  /\ profileFetches = {}
  /\ channel = Null
  /\ notifs = <<>>
  /\ table = {}
  /\ nextId = 1
  /\ profiles = [u \in Users |->
                   IF u = "A" THEN FilePath(variant, "A", "png") ELSE NoPath]
  /\ storage = {FilePath(variant, "A", "png")}
  /\ uploads = {}
  /\ stimuli = 0
  /\ hist = <<>>
  /\ lastAuthEvent = NotYet
  /\ mounted = TRUE

-----------------------------------------------------------------------------
(* Session Tracker *)

\* The onAuthStateChange listener is registered with the provider: from the
\* mount until the cleanup of the auth effect, which runs
\* listener.subscription.unsubscribe().
Subscribed_NoUnsubscribe == TRUE

Subscribed == mounted

\* The effect on [user] of P1 and P3, run after setUser(u): the cleanup of
\* the previous run removes the channel (and what it had not yet delivered);
\* for a user the effect issues fetchInstruments and fetchProfile/fetchAvatar
\* and subscribes a channel filtered by that user.  setUser(null) over null
\* re-renders nothing.  App has no such effect.
UserEffect_NoCleanup(u) ==
  IF variant \in EffectDriven
  THEN /\ channel' = IF u # Null THEN u ELSE channel
       /\ notifs' = notifs
       /\ fetches' = IF u # Null THEN fetches \cup {u} ELSE fetches
       /\ profileFetches' =
            IF u # Null THEN profileFetches \cup {u} ELSE profileFetches
  ELSE UNCHANGED <<channel, notifs, fetches, profileFetches>>

UserEffect(u) ==
  IF variant \in EffectDriven
  THEN /\ channel' = u
       /\ notifs' = IF u = Null /\ user = Null THEN notifs ELSE <<>>
       /\ fetches' = IF u # Null THEN fetches \cup {u} ELSE fetches
       /\ profileFetches' =
            IF u # Null THEN profileFetches \cup {u} ELSE profileFetches
  ELSE UNCHANGED <<channel, notifs, fetches, profileFetches>>

\* fetchUser resumes after `await supabase.auth.getSession()`: setUser and,
\* where there is one, setLoading(false).  The call read the session when it
\* was issued or at any time before it resolved.
GetSessionResolve ==
  /\ Response
  /\ getSessionCall.st = "pending"
  /\ \E s \in {getSessionCall.res, session} :
       /\ user' = s
       /\ UserEffect(s)
  /\ getSessionCall' = [st |-> "done", res |-> Null]
  /\ loading' = FALSE
  /\ alertMsg' = NoAlert
  /\ UNCHANGED <<variant, instruments, avatarUrl, uploading, instrumentName,
                 session, authQueue, authCalls, table, nextId, profiles,
                 storage, uploads, hist, lastAuthEvent, mounted>>

\* getSession() rejects.  App and P1 await it outside any try: fetchUser ends
\* there.  P3 catches, logs, and runs `finally { setLoading(false) }`.
GetSessionFail ==
  /\ Response
  /\ getSessionCall.st = "pending"
  /\ getSessionCall' = [st |-> "done", res |-> Null]
  /\ loading' = IF variant = "P3" THEN FALSE ELSE loading
  /\ alertMsg' = NoAlert
  /\ UNCHANGED <<variant, user, instruments, avatarUrl, uploading,
                 instrumentName, session, authQueue, authCalls, fetches,
                 profileFetches, channel, notifs, table, nextId, profiles,
                 storage, uploads, hist, lastAuthEvent, mounted>>

\* The onAuthStateChange listener receives the oldest undelivered
\* notification.  App: setUser, then the two fetches for a user or the two
\* clears for none, then setLoading(false).  P1: setUser.  P3: setUser and
\* setLoading(false).
AuthStateChange ==
  /\ Response
  /\ Subscribed
  /\ authQueue # <<>>
  /\ LET s == Head(authQueue) IN
       /\ user' = s
       /\ IF variant = "App"
          THEN /\ UNCHANGED <<channel, notifs>>
               /\ IF s # Null
                  THEN /\ profileFetches' = profileFetches \cup {s}
                       /\ fetches' = fetches \cup {s}
                       /\ UNCHANGED <<instruments, avatarUrl>>
                  ELSE /\ avatarUrl' = NoUrl
                       /\ instruments' = <<>>
                       /\ UNCHANGED <<fetches, profileFetches>>
          ELSE /\ UserEffect(s)
               /\ UNCHANGED <<instruments, avatarUrl>>
  /\ authQueue' = Tail(authQueue)
  /\ lastAuthEvent' = Head(authQueue)
  /\ loading' = FALSE
  /\ alertMsg' = NoAlert
  /\ UNCHANGED <<variant, uploading, instrumentName, session, getSessionCall,
                 authCalls, table, nextId, profiles, storage, uploads, hist,
                 mounted>>

\* The identity provider changes its session outside this page's handlers
\* (another tab signs in or out, the session expires) or re-announces the one
\* it holds (INITIAL_SESSION, TOKEN_REFRESHED), and notifies the listener.
ProviderEvent(s) ==
  /\ Stimulus
  /\ Len(authQueue) < MaxAuthQueue
  /\ session' = s
  /\ authQueue' = IF Subscribed THEN Append(authQueue, s) ELSE authQueue
  /\ alertMsg' = NoAlert
  /\ UNCHANGED <<variant, user, loading, instruments, avatarUrl, uploading,
                 instrumentName, getSessionCall, authCalls, fetches,
                 profileFetches, channel, notifs, table, nextId, profiles,
                 storage, uploads, hist, lastAuthEvent, mounted>>

\* handleLogin up to `await supabase.auth.signInWithPassword(...)`.  The
\* button is on the login form; App and P3 disable it while loading and set
\* loading first.
HandleLogin ==
  /\ Stimulus
  /\ ShowLogin
  /\ authCalls' = authCalls \cup {"login"}
  /\ loading' = (variant \in HasLoading)
  /\ alertMsg' = NoAlert
  /\ UNCHANGED <<variant, user, instruments, avatarUrl, uploading,
                 instrumentName, session, getSessionCall, authQueue, fetches,
                 profileFetches, channel, notifs, table, nextId, profiles,
                 storage, uploads, hist, lastAuthEvent, mounted>>

\* signInWithPassword returns a session for u: the provider holds it and
\* notifies the listener.  App and P3 end in `finally { setLoading(false) }`
\* and never write user themselves.  P1 assigns window.location.href: the
\* page loads again, and every pending continuation of the old page is gone.
LoginOk_SetsUser(u) ==
  /\ Response
  /\ "login" \in authCalls
  /\ Len(authQueue) < MaxAuthQueue
  /\ session' = u
  /\ authQueue' = IF Subscribed THEN Append(authQueue, u) ELSE authQueue
  /\ authCalls' = authCalls \ {"login"}
  /\ user' = u
  /\ UserEffect(u)
  /\ loading' = FALSE
  /\ alertMsg' = NoAlert
  /\ UNCHANGED <<variant, instruments, avatarUrl, uploading, instrumentName,
                 getSessionCall, table, nextId, profiles, storage, uploads,
                 hist, lastAuthEvent, mounted>>

LoginOk(u) ==
  /\ Response
  /\ "login" \in authCalls
  /\ IF variant = "P1"
     THEN /\ Loaded(variant, u)
     ELSE /\ Len(authQueue) < MaxAuthQueue
          /\ session' = u
          /\ authQueue' = IF Subscribed THEN Append(authQueue, u)
                          ELSE authQueue
          /\ authCalls' = authCalls \ {"login"}
          /\ loading' = FALSE
          /\ UNCHANGED <<variant, user, instruments, avatarUrl, uploading,
                         instrumentName, getSessionCall, fetches,
                         profileFetches, channel, notifs, uploads,
                         lastAuthEvent, mounted>>
  /\ alertMsg' = NoAlert
  /\ UNCHANGED <<table, nextId, profiles, storage, hist>>

\* signInWithPassword returns an error: alert(message); App and P3 then run
\* `finally { setLoading(false) }`.
LoginFail_NoFinally ==
  /\ Response
  /\ "login" \in authCalls
  /\ authCalls' = authCalls \ {"login"}
  /\ alertMsg' = "login failed"
  /\ UNCHANGED <<variant, user, loading, instruments, avatarUrl, uploading,
                 instrumentName, session, getSessionCall, authQueue, fetches,
                 profileFetches, channel, notifs, table, nextId, profiles,
                 storage, uploads, hist, lastAuthEvent, mounted>>

LoginFail ==
  /\ Response
  /\ "login" \in authCalls
  /\ authCalls' = authCalls \ {"login"}
  /\ alertMsg' = "login failed"
  /\ loading' = FALSE
  /\ UNCHANGED <<variant, user, instruments, avatarUrl, uploading,
                 instrumentName, session, getSessionCall, authQueue, fetches,
                 profileFetches, channel, notifs, table, nextId, profiles,
                 storage, uploads, hist, lastAuthEvent, mounted>>

\* handleSignUp up to `await supabase.auth.signUp(...)`.
HandleSignUp ==
  /\ Stimulus
  /\ ShowLogin
  /\ authCalls' = authCalls \cup {"signup"}
  /\ loading' = (variant \in HasLoading)
  /\ alertMsg' = NoAlert
  /\ UNCHANGED <<variant, user, instruments, avatarUrl, uploading,
                 instrumentName, session, getSessionCall, authQueue, fetches,
                 profileFetches, channel, notifs, table, nextId, profiles,
                 storage, uploads, hist, lastAuthEvent, mounted>>

\* signUp returns: alert("Check your email for confirmation!") or
\* alert(error.message); App and P3 then run `finally { setLoading(false) }`.
SignUpDone(ok) ==
  /\ Response
  /\ "signup" \in authCalls
  /\ authCalls' = authCalls \ {"signup"}
  /\ alertMsg' = IF ok THEN "check your email" ELSE "sign-up failed"
  /\ loading' = FALSE
  /\ UNCHANGED <<variant, user, instruments, avatarUrl, uploading,
                 instrumentName, session, getSessionCall, authQueue, fetches,
                 profileFetches, channel, notifs, table, nextId, profiles,
                 storage, uploads, hist, lastAuthEvent, mounted>>

\* handleLogout: `await supabase.auth.signOut()` (ok: the provider drops the
\* session and notifies the listener; the returned error is not looked at),
\* then setUser(null), setInstruments([]) and, in App only,
\* setAvatarUrl(null).
HandleLogout(ok) ==
  /\ Stimulus
  /\ ShowDashboard
  /\ IF ok
     THEN /\ Len(authQueue) < MaxAuthQueue
          /\ session' = Null
          /\ authQueue' = IF Subscribed THEN Append(authQueue, Null)
                          ELSE authQueue
     ELSE UNCHANGED <<session, authQueue>>
  /\ user' = Null
  /\ lastAuthEvent' = LoggedOut
  /\ UserEffect(Null)
  /\ instruments' = <<>>
  /\ avatarUrl' = IF variant = "App" THEN NoUrl ELSE avatarUrl
  /\ alertMsg' = NoAlert
  /\ UNCHANGED <<variant, loading, uploading, instrumentName, getSessionCall,
                 authCalls, table, nextId, profiles, storage, uploads, hist,
                 mounted>>

\* The component is unmounted: React runs the cleanup of both effects.  The
\* auth effect's cleanup unsubscribes the listener, so what the provider had
\* for it is never delivered; the [user] effect's cleanup (P1, P3) removes
\* the row channel.  Calls already awaited still resume afterwards and call
\* their setters; no handler of the rendered page can be triggered any more.
Teardown ==
  /\ Stimulus
  /\ mounted
  /\ mounted' = FALSE
  /\ authQueue' = IF Subscribed' THEN authQueue ELSE <<>>
  /\ channel' = Null
  /\ notifs' = <<>>
  /\ alertMsg' = NoAlert
  /\ UNCHANGED <<variant, user, loading, instruments, avatarUrl, uploading,
                 instrumentName, session, getSessionCall, authCalls, fetches,
                 profileFetches, table, nextId, profiles, storage, uploads,
                 hist, lastAuthEvent>>

SessionNext ==
  \/ GetSessionResolve
  \/ GetSessionFail
  \/ AuthStateChange
  \/ \E s \in Users \cup {Null} : ProviderEvent(s)
  \/ HandleLogin
  \/ \E u \in Users : LoginOk(u)
  \/ LoginFail
  \/ HandleSignUp
  \/ \E ok \in BOOLEAN : SignUpDone(ok)
  \/ \E ok \in BOOLEAN : HandleLogout(ok)

-----------------------------------------------------------------------------
(* Avatar Resolver *)

\* What fetchProfile / fetchAvatar publishes once the profile read returned:
\* cur is the avatar URL published so far, path the stored avatar_url.
\*   App: on error return; a path is resolved and published; else null.
\*   P1 : `if (!error && data?.avatar_url)` publish; there is no else.
\*   P3 : the same test, with `else setAvatarUrl(null)`.
ProfilePublished(v, ok, path, cur) ==
  CASE v = "App" -> IF ~ok THEN cur
                    ELSE IF path # NoPath THEN GetPublicUrl(path) ELSE NoUrl
    [] v = "P1"  -> IF ok /\ path # NoPath THEN GetPublicUrl(path) ELSE cur
    [] v = "P3"  -> IF ok /\ path # NoPath THEN GetPublicUrl(path) ELSE NoUrl

\* fetchProfile(u) / fetchAvatar resumes after the profile read for u.
FetchProfileDone(u, ok) ==
  /\ Response
  /\ u \in profileFetches
  /\ profileFetches' = profileFetches \ {u}
  /\ avatarUrl' = ProfilePublished(variant, ok, profiles[u], avatarUrl)
  /\ alertMsg' = NoAlert
  /\ UNCHANGED <<variant, user, loading, instruments, uploading,
                 instrumentName, session, getSessionCall, authQueue,
                 authCalls, fetches, channel, notifs, table, nextId, profiles,
                 storage, uploads, hist, lastAuthEvent, mounted>>

-----------------------------------------------------------------------------
(* Upload Flow *)

\* Whether the file input lets a change event through: it is rendered on the
\* dashboard with disabled={uploading}.
UploadTrigger_NotDisabled == ShowDashboard

UploadTrigger == ShowDashboard /\ ~uploading

\* handleAvatarUpload up to its first await.  setUploading(true); with no
\* file selected `return` runs `finally { setUploading(false) }` at once.
\* Otherwise the path is built from the rendered user's id and the file's
\* extension and the storage write is issued.
HandleAvatarUpload(file) ==
  /\ Stimulus
  /\ UploadTrigger
  /\ IF file = NoFile
     THEN UNCHANGED <<uploading, uploads>>
     ELSE /\ uploading' = TRUE
          /\ uploads' = uploads \cup
               {[user |-> user, path |-> FilePath(variant, user, file),
                 pc |-> "storage"]}
  /\ alertMsg' = NoAlert
  /\ UNCHANGED <<variant, user, loading, instruments, avatarUrl,
                 instrumentName, session, getSessionCall, authQueue,
                 authCalls, fetches, profileFetches, channel, notifs, table,
                 nextId, profiles, storage, hist, lastAuthEvent, mounted>>

\* `if (uploadError) throw uploadError`, `if (updateError) throw updateError`.
Throws_Never(ok) == FALSE

Throws(ok) == ~ok

\* `catch { alert("Avatar upload failed: " + ...) } finally
\* { setUploading(false) }`.
UploadCatch_NoFinally ==
  /\ alertMsg' = UploadFailed
  /\ UNCHANGED uploading

UploadCatch ==
  /\ alertMsg' = UploadFailed
  /\ uploading' = FALSE

\* The avatar URL after the profile write returned: getPublicUrl(filePath)
\* is published on the line after the throw, so only without an error.
UploadPublished_BeforeThrow(ok, path, cur) == GetPublicUrl(path)

UploadPublished(ok, path, cur) ==
  IF Throws(ok) THEN cur ELSE GetPublicUrl(path)

\* The storage write of upload up returns.  ok: the object is at the path
\* (upsert: true).  Without a throw the profile write is issued; a throw
\* runs the catch and the finally.
UploadStorageDone(up, ok) ==
  /\ Response
  /\ up \in uploads
  /\ up.pc = "storage"
  /\ storage' = IF ok THEN storage \cup {up.path} ELSE storage
  /\ IF Throws(ok)
     THEN /\ uploads' = uploads \ {up}
          /\ UploadCatch
     ELSE /\ uploads' = (uploads \ {up}) \cup {[up EXCEPT !.pc = "profile"]}
          /\ alertMsg' = NoAlert
          /\ UNCHANGED uploading
  /\ UNCHANGED <<variant, user, loading, instruments, avatarUrl,
                 instrumentName, session, getSessionCall, authQueue,
                 authCalls, fetches, profileFetches, channel, notifs, table,
                 nextId, profiles, hist, lastAuthEvent, mounted>>

\* The profile write of upload up returns.  ok: the profile of the uploading
\* user holds the path (App, P1: upsert by id; P3: update where id = user).
\* Without a throw getPublicUrl(path) is published (a local call) and the
\* finally runs; a throw runs the catch and the finally.
UploadProfileDone(up, ok) ==
  /\ Response
  /\ up \in uploads
  /\ up.pc = "profile"
  /\ uploads' = uploads \ {up}
  /\ profiles' = IF ok THEN [profiles EXCEPT ![up.user] = up.path]
                 ELSE profiles
  /\ avatarUrl' = UploadPublished(ok, up.path, avatarUrl)
  /\ IF Throws(ok)
     THEN UploadCatch
     ELSE alertMsg' = NoAlert /\ uploading' = FALSE
  /\ UNCHANGED <<variant, user, loading, instruments, instrumentName,
                 session, getSessionCall, authQueue, authCalls, fetches,
                 profileFetches, channel, notifs, table, nextId, storage,
                 hist, lastAuthEvent, mounted>>

AvatarNext ==
  \/ \E u \in Users, ok \in BOOLEAN : FetchProfileDone(u, ok)
  \/ \E file \in Exts \cup {NoFile} : HandleAvatarUpload(file)
  \/ \E up \in uploads, ok \in BOOLEAN : UploadStorageDone(up, ok)
  \/ \E up \in uploads, ok \in BOOLEAN : UploadProfileDone(up, ok)

-----------------------------------------------------------------------------
(* Row List Cache *)

\* `.from("instruments").select("*").eq("user_id", u)`: the rows of T owned
\* by u, here in the order of their identifiers, from identifier i on.
RECURSIVE SelectFrom(_, _, _)
SelectFrom(i, T, u) ==
  IF i > MaxRows THEN <<>>
  ELSE LET here == {r \in T : r.id = i /\ r.user_id = u}
       IN (IF here = {} THEN <<>> ELSE <<CHOOSE r \in here : TRUE>>)
            \o SelectFrom(i + 1, T, u)

SelectRows(T, u) == SelectFrom(1, T, u)

\* fetchInstruments resumes after the bulk read for u: the error is logged,
\* the data replaces the cache.
FetchInstrumentsDone_Guarded(u, ok) ==
  /\ Response
  /\ u \in fetches
  /\ fetches' = fetches \ {u}
  /\ instruments' = IF ok /\ u = user THEN SelectRows(table, u)
                    ELSE instruments
  /\ alertMsg' = NoAlert
  /\ UNCHANGED <<variant, user, loading, avatarUrl, uploading,
                 instrumentName, session, getSessionCall, authQueue,
                 authCalls, profileFetches, channel, notifs, table, nextId,
                 profiles, storage, uploads, hist, lastAuthEvent, mounted>>

FetchInstrumentsDone(u, ok) ==
  /\ Response
  /\ u \in fetches
  /\ fetches' = fetches \ {u}
  /\ instruments' = IF ok THEN SelectRows(table, u) ELSE instruments
  /\ alertMsg' = NoAlert
  /\ UNCHANGED <<variant, user, loading, avatarUrl, uploading,
                 instrumentName, session, getSessionCall, authQueue,
                 authCalls, profileFetches, channel, notifs, table, nextId,
                 profiles, storage, uploads, hist, lastAuthEvent, mounted>>

\* prev.filter(pred), prev.map(f) of JavaScript arrays.
RECURSIVE FilterOutId(_, _)
FilterOutId(prev, id) ==
  IF prev = <<>> THEN <<>>
  ELSE (IF Head(prev).id # id THEN <<Head(prev)>> ELSE <<>>)
         \o FilterOutId(Tail(prev), id)

ReplaceById_Upsert(prev, new) ==
  IF \E k \in 1..Len(prev) : prev[k].id = new.id
  THEN [k \in 1..Len(prev) |-> IF prev[k].id = new.id THEN new ELSE prev[k]]
  ELSE Append(prev, new)

ReplaceById(prev, new) ==
  [k \in 1..Len(prev) |-> IF prev[k].id = new.id THEN new ELSE prev[k]]

\* The postgres_changes callback of P1 and P3 applied to the cache prev.
\*   INSERT: [...prev, payload.new]
\*   DELETE: prev.filter(item => item.id !== payload.old.id)
\*   UPDATE: prev.map(item => item.id === payload.new.id ? payload.new : item)
ApplyChange(prev, payload) ==
  CASE payload.eventType = "INSERT" -> Append(prev, payload.row)
    [] payload.eventType = "DELETE" -> FilterOutId(prev, payload.row.id)
    [] payload.eventType = "UPDATE" -> ReplaceById(prev, payload.row)
    [] OTHER -> prev

\* The realtime service queues a change of a row owned by o for the channel
\* whose filter is user_id=eq.o.
Notify(o, eventType, row) ==
  IF channel = o
  THEN /\ Len(notifs) < MaxNotifs
       /\ notifs' = Append(notifs, [eventType |-> eventType, row |-> row])
  ELSE UNCHANGED notifs

\* The channel delivers its oldest undelivered payload to the callback.
PostgresChange ==
  /\ Response
  /\ notifs # <<>>
  /\ instruments' = ApplyChange(instruments, Head(notifs))
  /\ notifs' = Tail(notifs)
  /\ alertMsg' = NoAlert
  /\ UNCHANGED <<variant, user, loading, avatarUrl, uploading,
                 instrumentName, session, getSessionCall, authQueue,
                 authCalls, fetches, profileFetches, channel, table, nextId,
                 profiles, storage, uploads, hist, lastAuthEvent, mounted>>

\* onChange of the name input.
TypeInstrumentName ==
  /\ Stimulus
  /\ ShowDashboard
  /\ instrumentName = ""
  /\ instrumentName' = "drum"
  /\ alertMsg' = NoAlert
  /\ UNCHANGED <<variant, user, loading, instruments, avatarUrl, uploading,
                 session, getSessionCall, authQueue, authCalls, fetches,
                 profileFetches, channel, notifs, table, nextId, profiles,
                 storage, uploads, hist, lastAuthEvent, mounted>>

\* handleAddInstrument, with the insert it awaits: nothing for an empty name;
\* else one insert of {name, user_id: user.id}; on error an alert, on success
\* setInstrumentName("").  The handler never writes the cache.
HandleAddInstrument_Optimistic(ok) ==
  /\ Stimulus
  /\ ShowDashboard
  /\ IF instrumentName = ""
     THEN /\ alertMsg' = NoAlert
          /\ UNCHANGED <<instrumentName, table, nextId, notifs, instruments>>
     ELSE IF ok
          THEN /\ nextId <= MaxRows
               /\ table' = table \cup {Row(nextId, instrumentName, user)}
               /\ nextId' = nextId + 1
               /\ Notify(user, "INSERT", Row(nextId, instrumentName, user))
               /\ instruments' =
                    Append(instruments, Row(nextId, instrumentName, user))
               /\ instrumentName' = ""
               /\ alertMsg' = NoAlert
          ELSE /\ alertMsg' = "error adding instrument"
               /\ UNCHANGED <<instrumentName, table, nextId, notifs,
                              instruments>>
  /\ UNCHANGED <<variant, user, loading, avatarUrl, uploading, session,
                 getSessionCall, authQueue, authCalls, fetches,
                 profileFetches, channel, profiles, storage, uploads, hist,
                 lastAuthEvent, mounted>>

HandleAddInstrument(ok) ==
  /\ Stimulus
  /\ ShowDashboard
  /\ IF instrumentName = ""
     THEN /\ alertMsg' = NoAlert
          /\ UNCHANGED <<instrumentName, table, nextId, notifs>>
     ELSE IF ok
          THEN /\ nextId <= MaxRows
               /\ table' = table \cup {Row(nextId, instrumentName, user)}
               /\ nextId' = nextId + 1
               /\ Notify(user, "INSERT", Row(nextId, instrumentName, user))
               /\ instrumentName' = ""
               /\ alertMsg' = NoAlert
          ELSE /\ alertMsg' = "error adding instrument"
               /\ UNCHANGED <<instrumentName, table, nextId, notifs>>
  /\ UNCHANGED <<variant, user, loading, instruments, avatarUrl, uploading,
                 session, getSessionCall, authQueue, authCalls, fetches,
                 profileFetches, channel, profiles, storage, uploads, hist,
                 lastAuthEvent, mounted>>

\* Another client of the table inserts a row owned by o, renames a row or
\* deletes a row.
ExtInsert(o) ==
  /\ Stimulus
  /\ nextId <= MaxRows
  /\ table' = table \cup {Row(nextId, "drum", o)}
  /\ nextId' = nextId + 1
  /\ Notify(o, "INSERT", Row(nextId, "drum", o))
  /\ alertMsg' = NoAlert
  /\ UNCHANGED <<variant, user, loading, instruments, avatarUrl, uploading,
                 instrumentName, session, getSessionCall, authQueue,
                 authCalls, fetches, profileFetches, channel, profiles,
                 storage, uploads, hist, lastAuthEvent, mounted>>

ExtUpdate(r) ==
  /\ Stimulus
  /\ r \in table
  /\ r.name = "drum"
  /\ table' = (table \ {r}) \cup {[r EXCEPT !.name = "sax"]}
  /\ Notify(r.user_id, "UPDATE", [r EXCEPT !.name = "sax"])
  /\ alertMsg' = NoAlert
  /\ UNCHANGED <<variant, user, loading, instruments, avatarUrl, uploading,
                 instrumentName, session, getSessionCall, authQueue,
                 authCalls, fetches, profileFetches, channel, nextId,
                 profiles, storage, uploads, hist, lastAuthEvent, mounted>>

ExtDelete(r) ==
  /\ Stimulus
  /\ r \in table
  /\ table' = table \ {r}
  /\ Notify(r.user_id, "DELETE", r)
  /\ alertMsg' = NoAlert
  /\ UNCHANGED <<variant, user, loading, instruments, avatarUrl, uploading,
                 instrumentName, session, getSessionCall, authQueue,
                 authCalls, fetches, profileFetches, channel, nextId,
                 profiles, storage, uploads, hist, lastAuthEvent, mounted>>

RowsNext ==
  \/ \E u \in Users, ok \in BOOLEAN : FetchInstrumentsDone(u, ok)
  \/ PostgresChange
  \/ TypeInstrumentName
  \/ \E ok \in BOOLEAN : HandleAddInstrument(ok)
  \/ \E o \in Users : ExtInsert(o)
  \/ \E r \in table : ExtUpdate(r)
  \/ \E r \in table : ExtDelete(r)

-----------------------------------------------------------------------------
(* Specifications *)

Next == SessionNext \/ AvatarNext \/ RowsNext \/ Teardown

Spec == Init /\ [][Next]_vars

\* The remote calls of an upload return: what the claims about the Upload
\* Flow assume of the backend.
UploadReturns ==
  \/ \E up \in uploads, ok \in BOOLEAN : UploadStorageDone(up, ok)
  \/ \E up \in uploads, ok \in BOOLEAN : UploadProfileDone(up, ok)

\* The session and avatar handlers, the awaited calls of an upload returning.
\* The row handlers left out read and write neither the render guards nor
\* any variable of the Upload Flow.
UploadNext == SessionNext \/ AvatarNext

UploadFairSpec == Init /\ [][UploadNext]_vars /\ WF_vars(UploadReturns)

\* The live-update callback alone, fed arbitrary payloads from an empty cache.
ReplayRows == {Row(i, n, "A") : i \in RowIds, n \in Names}

Payloads == [eventType : {"INSERT", "UPDATE", "DELETE"}, row : ReplayRows]

ReplayInit == Init /\ variant \in EffectDriven

ReplayApply(p) ==
  /\ Len(hist) < MaxHist
  /\ instruments' = ApplyChange(instruments, p)
  /\ hist' = Append(hist, p)
  /\ UNCHANGED <<variant, user, loading, avatarUrl, uploading,
                 instrumentName, alertMsg, session, getSessionCall,
                 authQueue, authCalls, fetches, profileFetches, channel,
                 notifs, table, nextId, profiles, storage, uploads, stimuli,
                 lastAuthEvent, mounted>>

ReplayNext == \E p \in Payloads : ReplayApply(p)

ReplaySpec == ReplayInit /\ [][ReplayNext]_vars

-----------------------------------------------------------------------------
(* Properties *)

\* Nothing of the row cache is still on its way.
RowsSettled == fetches = {} /\ notifs = <<>>

\* C1: whenever the session is present for user u and no fetch result or
\* live-update notification is pending, the row cache holds exactly the rows
\* of the table owned by u: none of another owner, none missing, none twice.
C1_CacheMirrorsTable ==
  (user # Null /\ RowsSettled) =>
     /\ \A k \in 1..Len(instruments) :
          instruments[k] \in table /\ instruments[k].user_id = user
     /\ \A r \in table :
          r.user_id = user => \E k \in 1..Len(instruments) : instruments[k] = r
     /\ \A j, k \in 1..Len(instruments) :
          j # k => instruments[j] # instruments[k]

\* C2: a step of handleLogout ends with the row cache empty and the avatar
\* URL absent, whatever they were before, in every variant.
C2_LogoutClears ==
  [][(\E ok \in BOOLEAN : HandleLogout(ok))
       => (instruments' = <<>> /\ avatarUrl' = NoUrl)]_vars

\* C3: when the profile lookup for the current user completes and the
\* profile stores no avatar path, the published avatar URL is absent.
C3_NoPathPublishesNone ==
  [][\A u \in Users :
       (u = user /\ profiles[u] = NoPath /\ FetchProfileDone(u, TRUE))
         => avatarUrl' = NoUrl]_vars

\* The reference operations of C4 on an ordered collection.
RefHasId(c, id) == \E k \in 1..Len(c) : c[k].id = id

RefApply(c, p) ==
  CASE p.eventType = "INSERT" ->
         IF RefHasId(c, p.row.id) THEN c ELSE Append(c, p.row)
    [] p.eventType = "UPDATE" ->
         [k \in 1..Len(c) |-> IF c[k].id = p.row.id THEN p.row ELSE c[k]]
    [] p.eventType = "DELETE" ->
         SelectSeq(c, LAMBDA x : x.id # p.row.id)

RECURSIVE RefReplay(_)
RefReplay(h) ==
  IF h = <<>> THEN <<>>
  ELSE RefApply(RefReplay(SubSeq(h, 1, Len(h) - 1)), h[Len(h)])

\* C4: the cache after any sequence of INSERT/UPDATE/DELETE notifications
\* applied to an empty cache equals the replay of that sequence with
\* insert-if-absent, replace-by-id and remove-by-id.
C4_HandlerEqualsReplay == instruments = RefReplay(hist)

\* C5: an insert notification never makes an identifier occur twice: in
\* every reachable state no two rows of the cache have the same identifier.
C5_NoDuplicateIds ==
  \A j, k \in 1..Len(instruments) :
    j # k => instruments[j].id # instruments[k].id

\* The page loads again (P1's handleLogin on success): no continuation of the
\* old page runs any more.
PageReloads ==
  variant = "P1" /\ "login" \in authCalls /\ "login" \notin authCalls'
    /\ alertMsg' = NoAlert

\* Steps of the upload up, read off the state: the storage write returned
\* without error, a write returned an error, the profile write returned
\* without error.
StorageWriteOk(up) ==
  /\ up \in uploads /\ up.pc = "storage"
  /\ [up EXCEPT !.pc = "profile"] \in uploads'

StorageWriteFails(up) ==
  /\ up \in uploads /\ up.pc = "storage"
  /\ [up EXCEPT !.pc = "profile"] \notin uploads'
  /\ up \notin uploads'
  /\ ~PageReloads

ProfileWriteFails(up) ==
  /\ up \in uploads /\ up.pc = "profile"
  /\ up \notin uploads'
  /\ profiles'[up.user] # up.path \/ alertMsg' # NoAlert
  /\ ~PageReloads

ProfileWriteOk(up) ==
  /\ up \in uploads /\ up.pc = "profile"
  /\ up \notin uploads'
  /\ profiles'[up.user] = up.path /\ alertMsg' = NoAlert
  /\ ~PageReloads

UploadStarts == \E up \in uploads' : up \notin uploads /\ up.pc = "storage"

\* C6: in an upload whose storage write succeeds and whose profile write
\* fails, no step of the upload (its start, the return of the storage write,
\* the return of the profile write) changes the published avatar URL, and
\* the last of them leaves the uploading flag false.
C6_FailedProfileWriteKeepsUrl ==
  [][/\ UploadStarts => avatarUrl' = avatarUrl
     /\ \A up \in uploads :
          /\ StorageWriteOk(up) => avatarUrl' = avatarUrl
          /\ ProfileWriteFails(up) =>
               (avatarUrl' = avatarUrl /\ uploading' = FALSE)]_vars

\* C6's case: the only event so far was an upload by A of a .jpg; the object
\* is stored, the profile still names the .png, the failure was shown, the
\* URL published before is still published and the flag is false.
C6_Witness ==
  /\ stimuli = 1
  /\ FilePath(variant, "A", "jpg") \in storage
  /\ profiles["A"] = FilePath(variant, "A", "png")
  /\ alertMsg = UploadFailed
  /\ avatarUrl = GetPublicUrl(FilePath(variant, "A", "png"))
  /\ ~uploading

\* C7: at most one upload is in flight, and the flag is set exactly while
\* one is; while the flag is set no step starts another upload, and the only
\* change to the one in flight is its own progress.
C7_OneUploadInFlight ==
  /\ [](Cardinality(uploads) <= 1 /\ (uploading <=> uploads # {}))
  /\ [][uploading =>
          \A new \in uploads' :
            \/ new \in uploads
            \/ \E up \in uploads :
                 up.pc = "storage" /\ new = [up EXCEPT !.pc = "profile"]]_vars

\* C7's case: the dashboard is shown with the flag set and one upload in
\* flight, so a change event of the file input is the second trigger.
C7_Witness == ShowDashboard /\ uploading /\ Cardinality(uploads) = 1

\* C8: an upload starts with the storage write; the profile write is issued
\* only once the object is stored; the URL is published only in the step in
\* which the profile write succeeded; a failing step writes nothing further
\* and shows exactly one message, a succeeding step shows none.
C8_UploadStepOrder ==
  /\ [](\A up \in uploads : up.pc = "profile" => up.path \in storage)
  /\ [][/\ \A new \in uploads' \ uploads :
             new.pc = "storage" \/ \E up \in uploads : StorageWriteOk(up)
        /\ \A up \in uploads :
             /\ StorageWriteOk(up) =>
                  /\ up.path \in storage'
                  /\ profiles' = profiles /\ avatarUrl' = avatarUrl
                  /\ alertMsg' = NoAlert
             /\ StorageWriteFails(up) =>
                  /\ storage' = storage /\ profiles' = profiles
                  /\ avatarUrl' = avatarUrl
                  /\ alertMsg' = UploadFailed
                  /\ uploads' = uploads \ {up}
             /\ ProfileWriteFails(up) =>
                  /\ profiles' = profiles /\ avatarUrl' = avatarUrl
                  /\ alertMsg' = UploadFailed
                  /\ uploads' = uploads \ {up}
             /\ ProfileWriteOk(up) =>
                  /\ avatarUrl' = GetPublicUrl(up.path)
                  /\ uploads' = uploads \ {up}]_vars

\* C8's case: an upload of a .jpg by B went through all three steps.
C8_Witness ==
  /\ FilePath(variant, "B", "jpg") \in storage
  /\ profiles["B"] = FilePath(variant, "B", "jpg")
  /\ avatarUrl = GetPublicUrl(FilePath(variant, "B", "jpg"))
  /\ alertMsg = NoAlert
  /\ uploads = {}

\* C9: once the uploading flag is set it eventually becomes false again,
\* provided each remote call of the upload eventually returns.
C9_UploadReturnsToIdle == uploading ~> ~uploading

\* C9's case: the flag is set and the profile write is awaited.
C9_Witness == uploading /\ \E up \in uploads : up.pc = "profile"

\* C10: the step in which an upload succeeds publishes a URL that differs
\* from the one published before it (or sets one where none was published).
C10_SuccessChangesUrl ==
  [][\A up \in uploads :
       ProfileWriteOk(up) => (avatarUrl' # NoUrl /\ avatarUrl' # avatarUrl)]_vars

\* Steps of handleLogin, read off the state: the sign-in call is issued, and
\* it returns an error (the handler shows a message in no other step).
LoginSubmitted == "login" \notin authCalls /\ "login" \in authCalls'

LoginFails ==
  "login" \in authCalls /\ "login" \notin authCalls' /\ alertMsg' # NoAlert

\* C11: a handleLogin whose sign-in call returns an error writes neither the
\* session nor the row cache in any of its steps and shows the error message;
\* from the anonymous state with an empty cache its last step ends with no
\* session and the cache still empty, on the login form (not the loading
\* indicator) of the component if that is still mounted.
C11_FailedLoginStaysAnonymous ==
  [][/\ LoginSubmitted =>
          (user' = user /\ session' = session /\ instruments' = instruments)
     /\ LoginFails =>
          /\ user' = user /\ session' = session
          /\ instruments' = instruments
          /\ alertMsg' = "login failed"
          /\ ~loading'
          /\ (user = Null /\ instruments = <<>>) =>
               /\ user' = Null /\ instruments' = <<>>
               /\ mounted' => ShowLogin']_vars

\* C11's case: in App, where handleLogin sets the loading flag, the sign-in
\* call of an anonymous user has just returned an error.
C11_Witness ==
  /\ variant = "App"
  /\ alertMsg = "login failed"
  /\ session = Null
  /\ ShowLogin
  /\ instruments = <<>>

\* C12: while authenticated as u, an insert by another client of a row owned
\* by u reaches the cache: the insert hands the row to the page's live
\* subscription, and the delivery of an inserted row that is not in the cache
\* appends exactly that row at the end (an empty cache becomes the
\* one-element sequence of that row).  In every variant.
C12_InsertAppends ==
  [][/\ \A o \in Users :
          (user = o /\ ExtInsert(o)) =>
             notifs' = Append(notifs, [eventType |-> "INSERT",
                                       row |-> Row(nextId, "drum", o)])
     /\ (/\ PostgresChange
         /\ Head(notifs).eventType = "INSERT"
         /\ ~RefHasId(instruments, Head(notifs).row.id)) =>
          /\ instruments' = Append(instruments, Head(notifs).row)
          /\ instruments = <<>> => instruments' = <<Head(notifs).row>>]_vars

\* C13: once a provider notification has been delivered, the local session
\* equals the session it carried until the next notification or a logout; a
\* startup getSession call resolving later does not overwrite it.
C13_NotificationIsAuthoritative ==
  lastAuthEvent \in Users \cup {Null} => user = lastAuthEvent

\* The initial session state is known: the startup getSession call is no
\* longer pending, or the listener has received a notification.
SessionKnown == getSessionCall.st # "pending" \/ lastAuthEvent # NotYet

\* C14: until the initial session state is known the loading indicator is
\* what is rendered, neither the login form nor the dashboard, in every
\* variant.
C14_LoadingUntilKnown == ~SessionKnown => (~ShowLogin /\ ~ShowDashboard)

\* Steps of the session handlers, read off the state: the startup getSession
\* call returns, the listener receives a notification, handleLogin or
\* handleSignUp resumes after its call or is started (possibly again, while
\* its earlier call is still awaited).
GetSessionReturns ==
  getSessionCall.st = "pending" /\ getSessionCall'.st = "done"

NotificationDelivered ==
  authQueue # <<>> /\ authQueue' = Tail(authQueue)

CredentialsStep == authCalls' # authCalls \/ HandleLogin \/ HandleSignUp

\* C15: the local session and the loading flag change only when the startup
\* getSession call returns, when a notification is delivered, in a step of
\* handleLogin or handleSignUp, and in handleLogout; no step of the row
\* handlers or of the avatar handlers (row add, upload, fetch completion,
\* live update) changes the session or the flag; and a step of handleLogin or
\* handleSignUp that does not load the page again leaves the session value
\* as it was.
C15_ModeChangesOnlyBySession ==
  [][/\ (user' # user \/ loading' # loading) =>
          \/ GetSessionReturns \/ NotificationDelivered
          \/ CredentialsStep
          \/ (\E ok \in BOOLEAN : HandleLogout(ok))
     /\ (user' # user \/ loading' # loading \/ session' # session) =>
          ~(RowsNext \/ AvatarNext)
     /\ (CredentialsStep /\ ~PageReloads) => user' = user]_vars

\* C15's case: a sign-up went through (its message is shown) and the page is
\* still on the login form with no session.
C15_Witness ==
  /\ alertMsg = "check your email"
  /\ user = Null
  /\ ShowLogin

\* C16: every step that takes the page from no session to a session for u,
\* be it the startup getSession result or a delivered notification, issues
\* the bulk read filtered by u; and a bulk read for u that succeeds replaces
\* the cache by exactly the rows it read.
C16_EntryIssuesBulkRead ==
  [][/\ (user = Null /\ user' # Null) => user' \in fetches'
     /\ \A u \in Users :
          FetchInstrumentsDone(u, TRUE) =>
             instruments' = SelectRows(table, u)]_vars

\* C17: when the bulk read fails no message is shown and the row cache is
\* empty afterwards.
C17_FailedReadLeavesEmptyCache ==
  [][\A u \in Users :
       FetchInstrumentsDone(u, FALSE) =>
          (alertMsg' = NoAlert /\ instruments' = <<>>)]_vars

\* C18: when the profile read fails the avatar URL is absent afterwards,
\* whatever it was before, and no message is shown.
C18_FailedProfileReadPublishesNone ==
  [][\A u \in Users :
       FetchProfileDone(u, FALSE) =>
          (avatarUrl' = NoUrl /\ alertMsg' = NoAlert)]_vars

\* C19: a step that takes the local session from present to absent, a
\* logout or a delivered notification carrying no session, leaves no live
\* row subscription and an empty row cache.
C19_LeavingClearsRows ==
  [][(/\ user # Null /\ user' = Null
      /\ AuthStateChange \/ \E ok \in BOOLEAN : HandleLogout(ok)) =>
       (channel' = Null /\ instruments' = <<>>)]_vars

\* C20: the result of a bulk read is applied whatever the session is when it
\* arrives: a successful read issued for a user who is no longer the current
\* one replaces the cache by that earlier user's rows.  A session flap (A,
\* logout, B) in which the read for A completes last therefore ends with A's
\* rows in the cache under B's session.
C20_StaleReadIsApplied ==
  [][\A u \in Users :
       (u # user /\ FetchInstrumentsDone(u, TRUE)) =>
          instruments' = SelectRows(table, u)]_vars

\* C20's case: B is signed in, every read has completed, and the cache holds
\* rows, all of them owned by A.
C20_Witness ==
  /\ user = "B" /\ session = "B" /\ lastAuthEvent = "B"
  /\ fetches = {} /\ authQueue = <<>>
  /\ instruments # <<>>
  /\ \A k \in 1..Len(instruments) : instruments[k].user_id = "A"

\* C23: in every reachable state with no local session the row cache is empty
\* and the avatar URL is absent, also when a bulk read, a profile lookup or
\* an upload started under a session completes after the logout.
C23_AbsentSessionMeansEmpty ==
  user = Null => (instruments = <<>> /\ avatarUrl = NoUrl)

\* The URLs resolved from the paths that belong to u.
UrlsOf(u) == {GetPublicUrl(FilePath(variant, u, ext)) : ext \in Exts}

\* C24: in every reachable state with a session for u and an avatar URL
\* published, the URL was resolved from a path of u: a profile lookup or an
\* upload started under another user's session never leaves its URL
\* published under u's session.
C24_AvatarBelongsToUser ==
  (user # Null /\ avatarUrl # NoUrl) => avatarUrl \in UrlsOf(user)

\* handleAddInstrument got its insert through: the table has a new row.
AddSucceeds ==
  (\E ok \in BOOLEAN : HandleAddInstrument(ok)) /\ table' # table

\* C21: when handleAddInstrument succeeds, the added row is on its way to
\* the row cache with no further user action: it is among the live updates
\* the page has yet to apply, or a bulk read for the current user is still
\* to return.  In every variant.
C21_AddedRowReachesCache ==
  [][AddSucceeds =>
       \A r \in table' \ table :
          \/ \E k \in 1..Len(notifs') :
               notifs'[k].eventType = "INSERT" /\ notifs'[k].row = r
          \/ user \in fetches']_vars

\* C25: the step in which the startup getSession call returns or fails ends
\* the loading state, also when no provider notification ever arrives.
C25_StartupEndsLoading == [][GetSessionReturns => ~loading']_vars

\* C26: there is at most one live row subscription; its owner filter is the
\* current session's user, in the variants that subscribe there is one
\* whenever the mounted component has a session, and there is none while the
\* session is absent; every payload the page has yet to apply came
\* through the subscription of the current user; and a step that changes the
\* user leaves none of the old subscription's payloads to be applied.
C26_OneRowSubscription ==
  /\ [](/\ channel \in Users \cup {Null}
        /\ channel # Null => (variant \in EffectDriven /\ channel = user)
        /\ (mounted /\ variant \in EffectDriven) => channel = user
        /\ \A k \in 1..Len(notifs) : notifs[k].row.user_id = channel)
  /\ [][user' # user => notifs' = <<>>]_vars

\* C26's case: the user changed from A (whose bulk read is still awaited) to
\* B, the subscription is B's and a live update for B is waiting.
C26_Witness ==
  /\ variant \in EffectDriven
  /\ user = "B" /\ channel = "B"
  /\ "A" \in fetches
  /\ notifs # <<>>

\* The payload the callback applied in this step of the replay.
Applied == hist'[Len(hist')]

\* C27: an UPDATE or a DELETE whose identifier is not in the cache leaves the
\* cache unchanged; an UPDATE whose identifier is in the cache keeps its
\* length and order and changes only the elements with that identifier; a
\* DELETE removes every element with that identifier and keeps the others in
\* their order.
C27_UpdateDeleteFrame ==
  [][hist' # hist =>
       LET p == Applied
           id == Applied.row.id
       IN /\ (p.eventType \in {"UPDATE", "DELETE"}
                /\ ~RefHasId(instruments, id)) => instruments' = instruments
          /\ p.eventType = "UPDATE" =>
               /\ Len(instruments') = Len(instruments)
               /\ \A k \in 1..Len(instruments) :
                    instruments'[k] =
                      IF instruments[k].id = id THEN p.row ELSE instruments[k]
          /\ p.eventType = "DELETE" =>
               /\ ~RefHasId(instruments', id)
               /\ instruments' =
                    SelectSeq(instruments, LAMBDA x : x.id # id)]_vars

\* C27's case: the cache held the same identifier twice (two INSERTs) and a
\* DELETE of that identifier was applied last: both elements are gone.
C27_Witness ==
  /\ Len(hist) = 3
  /\ hist[1].eventType = "INSERT" /\ hist[2].eventType = "INSERT"
  /\ hist[3].eventType = "DELETE"
  /\ hist[1].row.id = hist[3].row.id /\ hist[2].row.id = hist[3].row.id
  /\ instruments = <<>>

\* C28: handleAddInstrument with an empty name issues no call and changes no
\* state; with a name it either inserts exactly one row, named as typed and
\* owned by the current user, clears the input and shows nothing, or (the
\* insert failing) inserts nothing, leaves the input and shows a message; in
\* no case does it write the row cache.
C28_AddInstrumentFrame ==
  [][(\E ok \in BOOLEAN : HandleAddInstrument(ok)) =>
       /\ instruments' = instruments
       /\ UNCHANGED <<user, loading, avatarUrl, uploading, session, fetches,
                      profileFetches, channel, profiles, storage, uploads>>
       /\ instrumentName = "" =>
            /\ UNCHANGED <<table, nextId, notifs, instrumentName>>
            /\ alertMsg' = NoAlert
       /\ instrumentName # "" =>
            \/ /\ \E r \in table' \ table :
                    /\ table' = table \cup {r}
                    /\ r.user_id = user /\ r.name = instrumentName
               /\ instrumentName' = ""
               /\ alertMsg' = NoAlert
            \/ /\ table' = table
               /\ instrumentName' = instrumentName
               /\ alertMsg' = "error adding instrument"]_vars

\* C28's case: an insert of the typed name failed: the message is shown, the
\* input still holds the name and the table has no row.
C28_Witness ==
  /\ ShowDashboard
  /\ alertMsg = "error adding instrument"
  /\ instrumentName = "drum"
  /\ table = {}

\* C22: once the component is torn down the provider subscription is
\* released: nothing is waiting to be delivered to the listener, and no step
\* that delivers a provider notification changes the session, the row cache,
\* the avatar URL or the loading flag.
C22_TeardownReleasesListener ==
  /\ [](~mounted => authQueue = <<>>)
  /\ [][(~mounted /\ NotificationDelivered) =>
          UNCHANGED <<user, instruments, avatarUrl, loading>>]_vars

\* C22's case: after the listener had received A the component was torn
\* down, and the provider has since switched to B: the page still holds A.
C22_Witness ==
  /\ ~mounted
  /\ lastAuthEvent = "A" /\ user = "A"
  /\ session = "B"
  /\ authQueue = <<>>

=============================================================================
